---- MODULE Spec2Model ----
(***************************************************************************)
(* A model of the autoregressive sequence decoder of                       *)
(* gdl/models/talkinghead/FaceFormerDecoder.py: the positional tables, the *)
(* temporal bias mask, the alignment mask, the teacher-forced and the      *)
(* step-wise decode paths, the two output heads and the composition with   *)
(* the template.                                                           *)
(*                                                                         *)
(* Conventions.  Python indices are 0-based, sequences here are 1-based:   *)
(* row t of a Python tensor is element t+1 of the sequence.  A tensor of   *)
(* shape (B, T, d) is a sequence (batch) of sequences (time); the feature  *)
(* axis is one abstract value plus, where it matters, a width.             *)
(***************************************************************************)
EXTENDS Integers, Sequences, FiniteSets, TLC

\* ---------------------------------------------------------------- bounds
MaxSeqLen == 5       \* max_seq_len drawn for the table functions: 0..MaxSeqLen
MaxPeriod == 7       \* period drawn for the table functions: 1..MaxPeriod
MaxHead   == 4       \* n_head drawn for the table functions: 1..MaxHead
MaxNExp == 3        \* n_exp of the Parametric head ranges over 0..MaxNExp
MaxSlopeN == 9       \* n drawn for get_slopes on its own: 1..MaxSlopeN

\* ------------------------------------------------------------ small helpers
Min(a, b) == IF a < b THEN a ELSE b
Max(a, b) == IF a > b THEN a ELSE b

RECURSIVE Pow2(_)
Pow2(k) == IF k <= 0 THEN 1 ELSE 2 * Pow2(k - 1)

\* math.floor(math.log2(n)) for n >= 1
RECURSIVE FloorLog2(_)
FloorLog2(n) == IF n <= 1 THEN 0 ELSE 1 + FloorLog2(n \div 2)

\* math.log2(n).is_integer()
IsPowerOf2(n) == Pow2(FloorLog2(n)) = n

\* x[0::2] without the stride: x itself
EveryIndexed(x) == x

\* x[0::2] of a Python list
EvenIndexed(x) == [k \in 1..((Len(x) + 1) \div 2) |-> x[2 * k - 1]]

\* x[:m] of a Python list, m >= 0
Prefix(x, m) == SubSeq(x, 1, Min(m, Len(x)))

\* x[-m:] of a Python list, m >= 1: the last m elements (all of x if m > len)
Suffix(x, m) == SubSeq(x, Max(Len(x) - m, 0) + 1, Len(x))

\* float('-inf'), as a value no finite entry of the model takes
NegInf == -1000000

\* ------------------------------------------------------- init_biased_mask
\* get_slopes_power_of_2(n): start = 2^(-2^-(log2(n)-3)) = 2^(-8/n), and
\* entry i (0-based) is start*ratio^i = 2^(-8(i+1)/n).  A slope 2^(-e/16) is
\* held as its exponent numerator e, so entry k (1-based) is 128k/n.
get_slopes_power_of_2(n) == [k \in 1..n |-> (128 * k) \div n]

RECURSIVE get_slopes(_)
get_slopes(n) ==
    IF IsPowerOf2(n)
    THEN get_slopes_power_of_2(n)
    ELSE LET closest_power_of_2 == Pow2(FloorLog2(n))
         IN  get_slopes_power_of_2(closest_power_of_2)
               \o Prefix(EvenIndexed(get_slopes(2 * closest_power_of_2)),
                         n - closest_power_of_2)

\* The slope 2^(-e/16) times 2^8: an integer for every head count up to 8,
\* whose exponents 8(i+1)/n are whole numbers between 1 and 8.
SlopeScaled(e) == Pow2((128 - e) \div 16)

\* torch.arange(start=0, end=max_seq_len, step=period)
ArangeStep(max_seq_len, period) ==
    [k \in 1..((max_seq_len + period - 1) \div period) |-> (k - 1) * period]

\* .unsqueeze(1).repeat(1,period).view(-1)//(period): each entry of the
\* arange period times over, then floor-divided by period
RepeatedBlocks(max_seq_len, period) ==
    LET a == ArangeStep(max_seq_len, period)
    IN  [q \in 1..(Len(a) * period) |-> a[((q - 1) \div period) + 1] \div period]

\* bias negated but not flipped
UnflippedBias(max_seq_len, period) ==
    LET r == RepeatedBlocks(max_seq_len, period)
    IN  [q \in 1..Len(r) |-> 0 - r[q]]

\* bias = - torch.flip(bias, dims=[0])
FlippedBias(max_seq_len, period) ==
    LET r == RepeatedBlocks(max_seq_len, period)
    IN  [q \in 1..Len(r) |-> 0 - r[Len(r) + 1 - q]]

\* alibi = zeros(max,max); alibi[i, :i+1] = bias[-(i+1):]
Alibi(max_seq_len, period) ==
    LET bias == FlippedBias(max_seq_len, period)
    IN  [i \in 1..max_seq_len |->
            LET tail == Suffix(bias, i)
            IN  [j \in 1..max_seq_len |-> IF j <= i THEN tail[j] ELSE 0]]

\* CausalBase without the transpose(0, 1): the upper triangle stays open
CausalBaseUntransposed(max_seq_len) ==
    [i \in 1..max_seq_len |->
        [j \in 1..max_seq_len |-> IF j >= i THEN 0 ELSE NegInf]]

\* (triu(ones) == 1).transpose(0,1), then -inf where 0 and 0.0 where 1
CausalBase(max_seq_len) ==
    [i \in 1..max_seq_len |->
        [j \in 1..max_seq_len |-> IF j <= i THEN 0 ELSE NegInf]]

\* mask.unsqueeze(0) + slopes.unsqueeze(1).unsqueeze(1) * alibi.unsqueeze(0);
\* entries are held times 2^8; -inf plus a finite number is -inf
init_biased_mask(n_head, max_seq_len, period) ==
    LET slopes == get_slopes(n_head)
        alibi  == Alibi(max_seq_len, period)
        base   == CausalBase(max_seq_len)
    IN  [h \in 1..n_head |->
            [i \in 1..max_seq_len |->
                [j \in 1..max_seq_len |->
                    IF base[i][j] = NegInf
                    THEN NegInf
                    ELSE base[i][j] + SlopeScaled(slopes[h]) * alibi[i][j]]]]

\* ------------------------------------------------------------ enc_dec_mask
\* enc_dec_mask returning (mask == 0) in place of (mask == 1)
enc_dec_mask_inverted(T, S, dataset) ==
    LET smaller_dim == Min(T, S)
    IN  [i \in 1..T |->
            [j \in 1..S |->
                IF dataset = "BIWI"
                THEN i <= smaller_dim /\ (j - 1) \in {2 * (i - 1), 2 * (i - 1) + 1}
                ELSE i <= smaller_dim /\ j = i]]

\* enc_dec_mask with one-column BIWI windows, mask[i, i*2:i*2+1] = 0
enc_dec_mask_narrow(T, S, dataset) ==
    LET smaller_dim == Min(T, S)
    IN  [i \in 1..T |->
            [j \in 1..S |->
                IF dataset = "BIWI"
                THEN ~(i <= smaller_dim /\ (j - 1) = 2 * (i - 1))
                ELSE ~(i <= smaller_dim /\ j = i)]]

\* The returned matrix is (mask == 1): TRUE forbids attention, FALSE permits.
\* mask[i, i*2:i*2+2] = 0 and mask[i, i] = 0 for i < min(T, S); a slice
\* assignment past the last column assigns nothing.
enc_dec_mask(T, S, dataset) ==
    LET smaller_dim == Min(T, S)
    IN  [i \in 1..T |->
            [j \in 1..S |->
                IF dataset = "BIWI"
                THEN ~(i <= smaller_dim /\ (j - 1) \in {2 * (i - 1), 2 * (i - 1) + 1})
                ELSE ~(i <= smaller_dim /\ j = i)]]

\* enc_dec_mask raises NotImplementedError for any other dataset name
enc_dec_mask_raises(dataset) == dataset \notin {"BIWI", "vocaset"}

\* ------------------------------------------------------- positional tables
\* A row of a sinusoidal table is determined by, and determines, the position
\* it is computed from; the row computed from position p is held as p.
SinusoidRow(p) == p

\* PeriodicPositionalEncoding.__init__: pe has period rows (positions
\* 0..period-1) and is repeated (max_seq_len//period)+1 times along the rows
\* repeat_num without the "+ 1"
PeriodicRepeatNumFloor(period, max_seq_len) == max_seq_len \div period

\* repeat_num with the quotient rounded up: ceil(max_seq_len/period) + 1
PeriodicRepeatNumCeil(period, max_seq_len) ==
    ((max_seq_len + period - 1) \div period) + 1

PeriodicRepeatNum(period, max_seq_len) == (max_seq_len \div period) + 1

\* pe.repeat(1, repeat_num, 1): the rows of pe, repeat_num times in a row
RECURSIVE RepeatRows(_, _)
RepeatRows(rows, n) == IF n <= 0 THEN <<>> ELSE rows \o RepeatRows(rows, n - 1)

PeriodicTable(period, max_seq_len) ==
    LET base == [p \in 1..period |-> SinusoidRow(p - 1)]
    IN  RepeatRows(base, PeriodicRepeatNum(period, max_seq_len))

\* PositionalEncoding.__init__: pe has shape (max_len, 1, d_model), one row
\* per position 0..max_len-1, held along the FIRST axis
MonotonicTable(max_len) == [p \in 1..max_len |-> SinusoidRow(p - 1)]

\* ------------------------------------------------------------ tensor values
\* A feature vector is one number modulo Modulus.  NaN is what a softmax over
\* a row of -inf yields; every arithmetic operation on NaN yields NaN.
Modulus == 5
NaN == -1

Values == 0..(Modulus - 1)

VAdd(a, b) == IF a = NaN \/ b = NaN THEN NaN ELSE (a + b) % Modulus
VSub(a, b) == IF a = NaN \/ b = NaN THEN NaN ELSE (a - b) % Modulus
VMul(a, b) == IF a = NaN \/ b = NaN THEN NaN ELSE (a * b) % Modulus

\* nn.Linear with weight wb[1] and bias wb[2]
Linear(wb, x) == VAdd(VMul(wb[1], x), wb[2])

RECURSIVE VSum(_)
VSum(xs) == IF xs = <<>> THEN 0 ELSE VAdd(Head(xs), VSum(Tail(xs)))

\* shape of a (B, T) tensor held as a sequence of sequences
BatchOf(x) == Len(x)
TimeOf(x) == IF Len(x) = 0 THEN 0 ELSE Len(x[1])

\* ------------------------------------------------ positional encoder forward
\* The result of a tensor operation that may raise: ok is FALSE when it raises.
Raised == [ok |-> FALSE]

\* PeriodicPositionalEncoding.forward(x), x of shape (B, T, d), self.pe of
\* shape (1, rows, d).  pe = self.pe[:, :T, :] has n = min(T, rows) rows.
\*   add:    x + pe broadcasts, which needs n = T or n = 1;
\*   concat: cat([x, pe.repeat(1, T, 1)], dim=2) joins (B, T, d) with
\*           (1, n*T, d), which needs B = 1 and T = n*T;
\*   any other op raises ValueError.
\* An entry of the result holds the input value v and the table row pos
\* combined with it; w is the output width as a multiple of d.
PeriodicForward(pe, op, x) ==
    LET B == BatchOf(x)
        T == TimeOf(x)
        n == Min(T, Len(pe))
    IN  IF op \in {"add", "sum"}
        THEN IF n = T \/ n = 1
             THEN [ok |-> TRUE, w |-> 1,
                   x |-> [b \in 1..B |-> [t \in 1..T |->
                            [v |-> x[b][t], pos |-> pe[IF n = T THEN t ELSE 1]]]]]
             ELSE Raised
        ELSE IF op \in {"concat", "cat", "concatenate"}
        THEN IF B = 1 /\ T = n * T
             THEN [ok |-> TRUE, w |-> 2,
                   x |-> [b \in 1..B |-> [t \in 1..T |->
                            [v |-> x[b][t], pos |-> pe[1]]]]]
             ELSE Raised
        ELSE Raised

\* PositionalEncoding.forward(x), x of shape (B, T, d), self.pe of shape
\* (M, 1, d).  pe = self.pe[:, :T, :] slices the axis of size 1 and keeps all
\* M rows on the batch axis.
\*   add:    x + pe broadcasts (B, T, d) with (M, 1, d): needs B = M, B = 1
\*           or M = 1, and the result has max(B, M) batch rows;
\*   concat: cat([x, pe.repeat(1, T, 1)], dim=2) joins (B, T, d) with
\*           (M, T, d), which needs B = M.
MonotonicForward(pe, op, x) ==
    LET B == BatchOf(x)
        T == TimeOf(x)
        M == Len(pe)
    IN  IF op \in {"add", "sum"}
        THEN IF B = M \/ B = 1 \/ M = 1
             THEN [ok |-> TRUE, w |-> 1,
                   x |-> [r \in 1..Max(B, M) |-> [t \in 1..T |->
                            [v |-> x[IF B = 1 THEN 1 ELSE r][t],
                             pos |-> pe[IF M = 1 THEN 1 ELSE r]]]]]
             ELSE Raised
        ELSE IF op \in {"concat", "cat", "concatenate"}
        THEN IF B = M
             THEN [ok |-> TRUE, w |-> 2,
                   x |-> [b \in 1..B |-> [t \in 1..T |->
                            [v |-> x[b][t], pos |-> pe[b]]]]]
             ELSE Raised
        ELSE Raised

\* self.PE(x) up to its last line: the encoder positional_encoding_from_cfg
\* built, before self.dropout
PEForward(PE, x) ==
    IF PE.type = "PeriodicPositionalEncoding"
    THEN PeriodicForward(PE.pe, PE.op, x)
    ELSE MonotonicForward(PE.pe, PE.op, x)

\* return self.dropout(x), nn.Dropout(p=dropout) with the default p = 0.1.
\* In evaluation mode it returns x.  In training mode every element is, by a
\* random draw, either zeroed or kept and scaled by 1/(1-p): drop is the set
\* of sequence positions the draw zeroes, and the scaling of a kept element
\* is held as multiplication by DropScale.
DropScale == 2

Dropout(training, r, drop) ==
    IF ~r.ok \/ ~training
    THEN r
    ELSE [r EXCEPT !.x = [b \in 1..Len(r.x) |-> [t \in 1..Len(r.x[b]) |->
                            IF t \in drop
                            THEN [v |-> 0, pos |-> 0]
                            ELSE [v |-> VMul(DropScale, r.x[b][t].v),
                                  pos |-> DropScale * r.x[b][t].pos]]]]

\* the draws dropout can make over T sequence positions
DropChoices(training, T) == IF training THEN SUBSET (1..T) ELSE { {} }

\* ------------------------------------------------------- the attention stack
\* self.transformer_decoder(vertices_input, hidden_states, tgt_mask=...,
\* memory_mask=...): nn.TransformerDecoder with d_model = cfg.feature_dim and
\* nhead = cfg.nhead, batch_first.  It raises when
\*   - the target width is not d_model (w # 1),
\*   - the 3-D tgt_mask is not of shape (batch*nhead, T, T): biased_mask has
\*     nhead matrices, so batch must be 1, and its slice must be T x T,
\*   - target and memory differ in batch size.
\* Otherwise row i of the output is a deterministic function of target row i,
\* of the target rows j the self-mask permits with their bias, and of the
\* memory rows the cross-mask permits.  A target row whose cross-mask row
\* forbids every one of S >= 1 memory rows is a softmax over -inf only: NaN,
\* or, in a build with a safe softmax, no memory contribution.
SelfTerm(tgt_mask, x, i, j) ==
    LET bias == VSum([h \in 1..Len(tgt_mask) |-> tgt_mask[h][i][j] % Modulus])
    IN  IF tgt_mask[1][i][j] = NegInf THEN 0
        ELSE VAdd(VAdd(x[j].v, x[j].pos % Modulus), bias)

CrossTerm(memory_mask, mem, i, s) ==
    IF memory_mask[i][s] THEN 0 ELSE VAdd(VMul(3, mem[s]), 1)

FullyMasked(memory_mask, i) ==
    /\ Len(memory_mask[i]) >= 1
    /\ \A s \in 1..Len(memory_mask[i]) : memory_mask[i][s]

AttentionRow(build, x, mem, tgt_mask, memory_mask, i) ==
    IF build = "nan" /\ FullyMasked(memory_mask, i)
    THEN NaN
    ELSE VAdd(VAdd(VMul(2, x[i].v), x[i].pos % Modulus),
              VAdd(VSum([j \in 1..Len(x) |-> SelfTerm(tgt_mask, x, i, j)]),
                   VSum([s \in 1..Len(mem) |-> CrossTerm(memory_mask, mem, i, s)])))

transformer_decoder(build, tgt, memory, tgt_mask, memory_mask) ==
    LET B == BatchOf(tgt.x)
        T == TimeOf(tgt.x)
    IN  IF \/ tgt.w # 1
           \/ B # 1
           \/ Len(tgt_mask[1]) # T
           \/ BatchOf(memory) # B
        THEN Raised
        ELSE [ok |-> TRUE,
              h |-> [b \in 1..B |-> [i \in 1..T |->
                       AttentionRow(build, tgt.x[b], memory[b], tgt_mask,
                                    memory_mask, i)]]]

\* ------------------------------------------------------------ the sample dict
\* sample is a Python dict: a function from the keys it holds to their values.
Has(sample, k) == k \in DOMAIN sample
Put(sample, k, val) == (k :> val) @@ sample

\* ----------------------------------------------------------- the shape model
\* The injected shape function F(shape, expression, pose) -> vertices, a pure
\* deterministic function of its arguments and of the v_template field that
\* the caller sets on the shape model.  pose is <<global rotation, jaw>>.
FLAME(v_template, shape_params, expression_params, pose_params) ==
    VAdd(VAdd(v_template, shape_params),
         VAdd(VMul(2, expression_params),
              VAdd(VMul(3, pose_params[2]), VMul(4, pose_params[1]))))

\* the shape model's eye_pose: <<first three components, last three>>, zero
eye_pose == <<0, 0>>

\* ------------------------------------------------------------ output heads
\* FaceFormerDecoder._decode_vertices: vertex_map(transformer_out)
DirectDecodeVertices(dec, fl, sample, transformer_out) ==
    [ok |-> TRUE, sample |-> sample, flame |-> fl,
     out |-> [b \in 1..BatchOf(transformer_out) |->
                [t \in 1..TimeOf(transformer_out) |->
                    Linear(dec.vertex_map, transformer_out[b][t])]]]

\* sample["gt_jaw"][:, :T_size, ...].view(batch_size*T_size, -1) raises when
\* the key is missing or holds fewer than T_size frames
GtParamsOk(sample, key, T_size) ==
    Has(sample, key) /\ TimeOf(sample[key]) >= T_size

\* line 293: self.flame.forward(zero shape, zero expression), default pose,
\* on the v_template the shape model holds when the statement runs
FlameNeutral(fl) == FLAME(fl.v_template, 0, 0, fl.eye_pose)

\* lines 290 and 294: self.flame(zero shape, expression_params, pose_params)
\* on the v_template the shape model holds when the statement runs
FlamePosed(fl, expression_params, jaw_pose) ==
    FLAME(fl.v_template, 0, expression_params, <<fl.eye_pose[1], jaw_pose>>)

\* FlameOffset without line 295: the vertices themselves, not their offset
FlameOffsetNoNeutral(fl, expression_params, jaw_pose) ==
    FLAME(fl.v_template, 0, expression_params, <<fl.eye_pose[1], jaw_pose>>)

\* lines 290-295: pose_params = [eye_pose[:3], jaw_pose]; the neutral shape is
\* flame.forward(zero shape, zero expression) with the default pose, the frame
\* is flame(zero shape, expression_params, pose_params); their difference
FlameOffset(fl, expression_params, jaw_pose) ==
    LET vertice_neutral == FlameNeutral(fl)
        vertice_out == FlamePosed(fl, expression_params, jaw_pose)
    IN  VSub(vertice_out, vertice_neutral)

\* FlameFormerDecoder._decode_vertices.  Line 265 stores the template in the
\* shape model first; the parameters are read from the projection when they
\* are predicted and from the sample otherwise; the neutral shape is
\* F(0, 0) with the shape model's default pose, the frame is
\* F(0, expression, [eye_pose[:3], jaw]) and the offset is their difference.
FlameDecodeVertices(dec, fl, sample, transformer_out) ==
    LET template   == sample["template"]
        fl1        == [fl EXCEPT !.v_template = template[1]]
        batch_size == BatchOf(transformer_out)
        T_size     == TimeOf(transformer_out)
        jaw_ok     == dec.predict_jaw \/ GtParamsOk(sample, "gt_jaw", T_size)
        exp_ok     == dec.predict_exp \/ GtParamsOk(sample, "gt_exp", T_size)
        jaw_pose   == [b \in 1..batch_size |-> [t \in 1..T_size |->
                         IF dec.predict_jaw
                         THEN Linear(dec.post_transformer.jaw, transformer_out[b][t])
                         ELSE sample["gt_jaw"][b][t]]]
        expression_params ==
                      [b \in 1..batch_size |-> [t \in 1..T_size |->
                         IF dec.predict_exp
                         THEN Linear(dec.post_transformer.exp, transformer_out[b][t])
                         ELSE sample["gt_exp"][b][t]]]
        s1 == Put(Put(sample, "predicted_exp", expression_params),
                  "predicted_jaw", jaw_pose)
    IN  IF ~jaw_ok \/ ~exp_ok
        THEN [ok |-> FALSE, sample |-> sample, flame |-> fl1]
        ELSE [ok |-> TRUE, sample |-> s1, flame |-> fl1,
              out |-> [b \in 1..batch_size |-> [t \in 1..T_size |->
                        FlameOffset(fl1, expression_params[b][t], jaw_pose[b][t])]]]

\* The component bookkeeping of the Parametric head, components numbered
\* from 0.  FlameFormerDecoder.__init__, lines 243-251: the width of
\* post_transformer.
pred_dim(predict_exp, predict_jaw, n_exp) ==
    (IF predict_exp THEN n_exp ELSE 0) + (IF predict_jaw THEN 3 ELSE 0)

\* x.view(N, -1) on a tensor of numel elements: with no element the size of
\* the inferred axis is ambiguous and view raises RuntimeError
ViewRaises(numel) == numel = 0

\* _decode_vertices, lines 266-288, on a projection of BT = batch_size*T_size
\* rows: the components each slice reads, vector_idx as the assertion finds
\* it, and whether a view raised before the assertion was reached
FlameLayout(predict_exp, predict_jaw, n_exp, BT) ==
    LET width    == pred_dim(predict_exp, predict_jaw, n_exp)
        jaw_idx  == IF predict_jaw THEN 0..(Min(3, width) - 1) ELSE {}
        idx_jaw  == IF predict_jaw THEN 3 ELSE 0
        exp_idx  == IF predict_exp THEN idx_jaw..(width - 1) ELSE {}
        idx_exp  == IF predict_exp THEN idx_jaw + n_exp ELSE idx_jaw
        raised   == \/ predict_jaw /\ ViewRaises(BT * Cardinality(jaw_idx))
                    \/ predict_exp /\ ViewRaises(BT * Cardinality(exp_idx))
    IN  [raised |-> raised, width |-> width, jaw_idx |-> jaw_idx,
         exp_idx |-> exp_idx, vector_idx |-> idx_exp,
         assert_ok |-> idx_exp = width]

\* self._decode_vertices(sample, transformer_out) of the decoder's class
DecodeVertices(dec, fl, sample, transformer_out) ==
    IF dec.kind = "FaceFormerDecoder"
    THEN DirectDecodeVertices(dec, fl, sample, transformer_out)
    ELSE FlameDecodeVertices(dec, fl, sample, transformer_out)

\* ------------------------------------------------------------------ _decode
\* the slice of the rows alone, self.biased_mask[:, :T, :]
MaskSliceRowsOnly(biased_mask, T) ==
    [h \in 1..Len(biased_mask) |->
        LET n == Min(T, Len(biased_mask[h]))
        IN  [i \in 1..n |-> biased_mask[h][i]]]

\* self.biased_mask[:, :T, :T]
MaskSlice(biased_mask, T) ==
    [h \in 1..Len(biased_mask) |->
        LET n == Min(T, Len(biased_mask[h]))
        IN  [i \in 1..n |-> [j \in 1..n |-> biased_mask[h][i][j]]]]

\* FaceFormerDecoderBase._decode(sample, vertices_input, hidden_states)
Decode(dec, fl, sample, vertices_input, hidden_states) ==
    LET T == TimeOf(vertices_input.x)
        tgt_mask == MaskSlice(dec.biased_mask, T)
        memory_mask == enc_dec_mask(T, TimeOf(hidden_states), "vocaset")
        transformer_out == transformer_decoder(dec.build, vertices_input,
                               hidden_states, tgt_mask, memory_mask)
    IN  IF ~transformer_out.ok
        THEN [ok |-> FALSE, sample |-> sample, flame |-> fl]
        ELSE DecodeVertices(dec, fl, sample, transformer_out.h)

\* ------------------------------------------------------ the two decode steps
\* self.obj_vector(one_hot).unsqueeze(1): a (B, 1) tensor, row b the
\* embedding of the subject one_hot[b] selects (obj_vector has no bias)
ObjEmbedding(dec, one_hot) ==
    [b \in 1..Len(one_hot) |-> <<dec.obj_vector[one_hot[b]]>>]

\* vertices_out[:,-1,:]
LastFrame(x, b) == x[b][Len(x[b])]

\* line 89 without line 90: the embedded frame with no style added
NewOutputNoStyle(dec, frame, style) == Linear(dec.vertice_map, frame)

\* lines 89-90: self.vertice_map(frame) + style_emb
NewOutput(dec, frame, style) == VAdd(Linear(dec.vertice_map, frame), style)

\* line 91 writing the new entry over the last one in place of appending it
GrownOverLast(vertice_emb, new_output) ==
    [b \in 1..BatchOf(vertice_emb) |->
        [vertice_emb[b] EXCEPT ![Len(vertice_emb[b])] = new_output[b]]]

\* line 91: torch.cat((vertice_emb, new_output), 1)
Grown(vertice_emb, new_output) ==
    [b \in 1..BatchOf(vertice_emb) |-> Append(vertice_emb[b], new_output[b])]

\* FaceFormerDecoderBase._autoregressive_step(sample, i); drop is the draw
\* the dropout of self.PE makes in this step
AutoregressiveStep(dec, fl, sample, i, drop) ==
    LET hidden_states == sample["hidden_feature"]
        style_emb == IF i = 0 THEN ObjEmbedding(dec, sample["one_hot"])
                     ELSE sample["style_emb"]
        vertice_emb == IF i = 0 THEN style_emb ELSE sample["embedded_output"]
        s1 == IF i = 0 THEN Put(sample, "style_emb", style_emb) ELSE sample
        vertices_input == Dropout(dec.training, PEForward(dec.PE, vertice_emb), drop)
        d == Decode(dec, fl, s1, vertices_input, hidden_states)
    IN  IF ~vertices_input.ok
        THEN [ok |-> FALSE, sample |-> s1, flame |-> fl]
        ELSE IF ~d.ok
        THEN [ok |-> FALSE, sample |-> d.sample, flame |-> d.flame]
        ELSE LET vertices_out == d.out
                 s2 == Put(d.sample, "predicted_vertices", vertices_out)
                 new_output == [b \in 1..BatchOf(vertices_out) |->
                                  NewOutput(dec, LastFrame(vertices_out, b), style_emb[b][1])]
                 grown == Grown(vertice_emb, new_output)
             IN  [ok |-> TRUE, flame |-> d.flame,
                  sample |-> Put(s2, "embedded_output", grown)]

\* line 106 without the shift: vertices - template
ShiftedInputUnshifted(vertices, template) ==
    [b \in 1..Len(template) |->
        IF Len(vertices[b]) = 0 THEN <<VSub(template[b], template[b])>>
        ELSE [t \in 1..Len(vertices[b]) |-> VSub(vertices[b][t], template[b])]]

\* torch.cat((template, vertices[:,:-1]), 1) - template, template (B, 1, D)
ShiftedInput(vertices, template) ==
    [b \in 1..Len(template) |->
        <<VSub(template[b], template[b])>>
          \o [t \in 1..(Len(vertices[b]) - 1) |-> VSub(vertices[b][t], template[b])]]

\* lines 106-109: the shifted ground truth, embedded, plus the style embedding
ForcedEmbedded(dec, sample) ==
    LET style_emb == ObjEmbedding(dec, sample["one_hot"])
        shifted == ShiftedInput(sample["gt_vertices"], sample["template"])
    IN  [b \in 1..Len(shifted) |-> [t \in 1..Len(shifted[b]) |->
            VAdd(Linear(dec.vertice_map, shifted[b][t]), style_emb[b][1])]]

\* FaceFormerDecoderBase._teacher_forced_step(sample); sample["gt_vertices"]
\* raises KeyError when the sample holds no ground truth; drop is the draw the
\* dropout of self.PE makes
TeacherForcedStep(dec, fl, sample, drop) ==
    IF ~Has(sample, "gt_vertices")
    THEN [ok |-> FALSE, sample |-> sample, flame |-> fl]
    ELSE
    LET hidden_states == sample["hidden_feature"]
        vertices_input == Dropout(dec.training,
                                  PEForward(dec.PE, ForcedEmbedded(dec, sample)), drop)
        d == Decode(dec, fl, sample, vertices_input, hidden_states)
    IN  IF ~vertices_input.ok
        THEN [ok |-> FALSE, sample |-> sample, flame |-> fl]
        ELSE IF ~d.ok
        THEN [ok |-> FALSE, sample |-> d.sample, flame |-> d.flame]
        ELSE [ok |-> TRUE, flame |-> d.flame,
              sample |-> Put(d.sample, "predicted_vertices", d.out)]

\* vertices_out + template, vertices_out of shape (Bp, T, D) and template of
\* shape (Bt, D): broadcasting aligns the template's batch axis with the
\* frame axis of vertices_out, which needs T = Bt, T = 1 or Bt = 1.
AddTemplate(vertices_out, template) ==
    LET T  == TimeOf(vertices_out)
        Bt == Len(template)
    IN  IF T = Bt \/ T = 1 \/ Bt = 1
        THEN [ok |-> TRUE,
              out |-> [b \in 1..BatchOf(vertices_out) |->
                         [t \in 1..(IF T = 1 THEN Bt ELSE T) |->
                            VAdd(vertices_out[b][IF T = 1 THEN 1 ELSE t],
                                 template[IF Bt = 1 THEN 1 ELSE t])]]]
        ELSE Raised

\* _post_prediction adding in place: the sum is stored in the template too
PostPredictionInPlace(sample) ==
    IF ~Has(sample, "predicted_vertices")
    THEN [ok |-> FALSE, sample |-> sample]
    ELSE LET r == AddTemplate(sample["predicted_vertices"], sample["template"])
         IN  IF r.ok
             THEN [ok |-> TRUE,
                   sample |-> Put(Put(sample, "predicted_vertices", r.out),
                                  "template", [b \in 1..Len(r.out) |-> r.out[b][1]])]
             ELSE [ok |-> FALSE, sample |-> sample]

\* FaceFormerDecoderBase._post_prediction(sample); sample["predicted_vertices"]
\* raises KeyError when no step has stored a prediction
PostPrediction(sample) ==
    IF ~Has(sample, "predicted_vertices")
    THEN [ok |-> FALSE, sample |-> sample]
    ELSE LET r == AddTemplate(sample["predicted_vertices"], sample["template"])
         IN  IF r.ok
             THEN [ok |-> TRUE, sample |-> Put(sample, "predicted_vertices", r.out)]
             ELSE [ok |-> FALSE, sample |-> sample]

\* FaceFormerDecoderBase._max_auto_regressive_steps: biased_mask.shape[1]
MaxAutoRegressiveSteps(dec) == Len(dec.biased_mask[1])

\* NumFrames one short of min(num_frames, max steps)
NumFramesOneShort(dec, sample) ==
    Min(IF Has(sample, "gt_vertices")
        THEN TimeOf(sample["gt_vertices"])
        ELSE TimeOf(sample["hidden_feature"]),
        MaxAutoRegressiveSteps(dec)) - 1

\* AutoRegressiveDecoder.forward, lines 19-20
NumFrames(dec, sample) ==
    Min(IF Has(sample, "gt_vertices")
        THEN TimeOf(sample["gt_vertices"])
        ELSE TimeOf(sample["hidden_feature"]),
        MaxAutoRegressiveSteps(dec))

\* ------------------------------------------------------------- construction
MaxLen   == 3        \* cfg.max_len, the mask capacity, ranges over 2..MaxLen
MaxS     == 2        \* conditioning length S ranges over 0..MaxS
MaxGT    == 3        \* ground-truth length ranges over 0..MaxGT
MaxBatch == 2        \* batch size ranges over 1..MaxBatch

\* positional_encoding_from_cfg(cfg) raising ValueError("Unsupported
\* positional encoding"): the only check made while a decoder is constructed.
\* Neither encoder's __init__ looks at op; it is stored as given.
positional_encoding_from_cfg_raises(pcfg) ==
    pcfg.type \notin {"PeriodicPositionalEncoding", "PositionalEncoding"}

\* positional_encoding_from_cfg(cfg): the encoder and its table
PositionalEncoder(pcfg) ==
    [type |-> pcfg.type, op |-> pcfg.op,
     pe |-> IF pcfg.type = "PeriodicPositionalEncoding"
            THEN PeriodicTable(pcfg.period, pcfg.max_seq_len)
            ELSE MonotonicTable(pcfg.max_len)]

\* FaceFormerDecoderBase.__init__ and the subclass __init__: the positional
\* encoder, the bias mask, and the weights of the linear layers.  vertex_map
\* is <<0, 0>> as nn.init.constant_ leaves it, or a trained value.
MakeDecoder(cfg) ==
    [kind |-> cfg.kind,
     PE |-> PositionalEncoder(cfg.positional_encoding),
     biased_mask |-> init_biased_mask(cfg.nhead, cfg.max_len, cfg.period),
     nhead |-> cfg.nhead,
     vertice_map |-> cfg.vertice_map,
     obj_vector |-> <<0, 1>>,
     vertex_map |-> cfg.head,
     post_transformer |-> [jaw |-> cfg.head, exp |-> cfg.head],
     predict_exp |-> cfg.predict_exp,
     predict_jaw |-> cfg.predict_jaw,
     training |-> cfg.training,
     build |-> cfg.build]

StandardPE == [type |-> "PeriodicPositionalEncoding", op |-> "add",
               period |-> 2, max_seq_len |-> MaxLen, max_len |-> 0]

\* The encoders other than the standard one: a table shorter than the mask
\* (of one row, and of two), the concatenating op, an op forward() rejects,
\* the monotonic encoder with one row and with two, and a type
\* positional_encoding_from_cfg does not know.
OtherPEs ==
    { [StandardPE EXCEPT !.period = 1, !.max_seq_len = 0],
      [StandardPE EXCEPT !.max_seq_len = 1],
      [StandardPE EXCEPT !.op = "concat"],
      [StandardPE EXCEPT !.op = "mul"],
      [StandardPE EXCEPT !.type = "PositionalEncoding", !.max_len = 1],
      [StandardPE EXCEPT !.type = "PositionalEncoding", !.max_len = 2],
      [StandardPE EXCEPT !.type = "LearnedPositionalEncoding"] }

HeadWeights == { <<0, 0>>, <<2, 1>> }

KindConfigs ==
    { [kind |-> "FaceFormerDecoder", predict_exp |-> FALSE, predict_jaw |-> FALSE] }
    \cup { [kind |-> "FlameFormerDecoder", predict_exp |-> e, predict_jaw |-> j]
             : e \in BOOLEAN, j \in BOOLEAN }

BaseConfigs ==
    { [kind |-> k.kind, predict_exp |-> k.predict_exp, predict_jaw |-> k.predict_jaw,
       head |-> hw, vertice_map |-> vm, nhead |-> 2, max_len |-> ml, period |-> 2,
       build |-> bd, training |-> FALSE, positional_encoding |-> StandardPE]
      : k \in KindConfigs, hw \in HeadWeights, vm \in { <<1, 0>>, <<1, 1>> },
        ml \in 2..MaxLen, bd \in {"nan", "safe"} }

PlainConfig ==
    [kind |-> "FaceFormerDecoder", predict_exp |-> FALSE, predict_jaw |-> FALSE,
     head |-> <<0, 0>>, vertice_map |-> <<1, 1>>, nhead |-> 3, max_len |-> MaxLen,
     period |-> 1, build |-> "nan", training |-> FALSE,
     positional_encoding |-> StandardPE]

\* decoders left in training mode (nn.Module.train()), where dropout is active
TrainConfigs ==
    { [c EXCEPT !.training = TRUE]
        : c \in { b \in BaseConfigs : /\ b.max_len = MaxLen /\ b.build = "safe"
                                      /\ b.vertice_map = <<1, 1>> /\ b.head = <<2, 1>>
                                      /\ b.predict_exp = b.predict_jaw } }

Configs ==
    BaseConfigs \cup TrainConfigs
       \cup { [PlainConfig EXCEPT !.positional_encoding = pe] : pe \in OtherPEs }

\* ------------------------------------------------------------ call inputs
\* What a caller puts in the sample: the conditioning sequence, the template,
\* the subject id and, when it has them, the ground-truth frames with their
\* jaw and expression parameters.
Inputs(B, S, hasGT, L, gseed, tseed, subj) ==
    LET base == [seq_encoder_output |->
                    [b \in 1..B |-> [t \in 1..S |-> (1 + t + b) % Modulus]],
                 template |-> [b \in 1..B |-> (tseed + b - 1) % Modulus],
                 one_hot |-> [b \in 1..B |-> subj]]
        gt == [gt_vertices |->
                    [b \in 1..B |-> [t \in 1..L |-> (gseed + t + b) % Modulus]],
               gt_jaw |-> [b \in 1..B |-> [t \in 1..L |-> gseed]],
               gt_exp |-> [b \in 1..B |-> [t \in 1..L |-> gseed]]]
    IN  IF hasGT THEN gt @@ base ELSE base

InputKeys == {"seq_encoder_output", "template", "one_hot",
              "gt_vertices", "gt_jaw", "gt_exp"}

CallInputs ==
    { Inputs(1, S, g, L, gs, ts, sj)
        : S \in 0..MaxS, g \in BOOLEAN, L \in 0..MaxGT, gs \in {0, 1},
          ts \in {1, 2}, sj \in {1, 2} }
    \cup { Inputs(B, S, g, L, 0, 1, 1)
        : B \in 2..MaxBatch, S \in 0..MaxS, g \in BOOLEAN, L \in 0..MaxGT }

\* the keys an earlier call left in a dict the caller fills again
Leftover(sample) == [k \in (DOMAIN sample) \ InputKeys |-> sample[k]]

EmptyDict == [k \in {} |-> 0]

\* ------------------------------------------------------------------- state
VARIABLES
    dec,       \* the decoder: tables and weights, fixed by construction
    flame,     \* the injected shape model's fields
    sample,    \* the dict the current call works on
    pc,        \* where forward() is: idle, init, forced, stepping, post,
               \* returned, raised
    ctl,       \* forward()'s locals: teacher_forcing, num_frames, i
    calls,     \* calls the caller still makes
    probe      \* arguments and results of the table functions

vars == <<dec, flame, sample, pc, ctl, calls, probe>>

NoProbe == [fn |-> "none"]
NoCtl == [teacher_forcing |-> FALSE, num_frames |-> 0, i |-> 0]

InitWith(configs, n) ==
    /\ dec \in { MakeDecoder(c) :
                    c \in { k \in configs :
                              ~positional_encoding_from_cfg_raises(k.positional_encoding) } }
    /\ flame = [v_template |-> 0, eye_pose |-> eye_pose]
    /\ sample = EmptyDict
    /\ pc = "idle"
    /\ ctl = NoCtl
    /\ calls = n
    /\ probe = NoProbe

Init == InitWith(Configs, 1)

\* The caller fills a dict, a new one or the one the last call returned or
\* left behind when it raised, and calls forward(sample, teacher_forcing=tf).
Call ==
    /\ pc \in {"idle", "returned", "raised"}
    /\ calls > 0
    /\ \E inp \in CallInputs, tf \in BOOLEAN, reuse \in BOOLEAN :
          /\ reuse => pc # "idle"
          /\ sample' = IF reuse THEN inp @@ Leftover(sample) ELSE inp
          /\ ctl' = [teacher_forcing |-> tf, num_frames |-> 0, i |-> 0]
    /\ pc' = "init"
    /\ calls' = calls - 1
    /\ UNCHANGED <<dec, flame, probe>>

\* forward(), lines 14-20: the hidden feature, the dispatch on
\* teacher_forcing and, for the step-wise path, the number of frames
Forward ==
    /\ pc = "init"
    /\ LET s1 == Put(sample, "hidden_feature", sample["seq_encoder_output"])
           n == NumFrames(dec, s1)
       IN  /\ sample' = s1
           /\ IF ctl.teacher_forcing
              THEN /\ pc' = "forced"
                   /\ ctl' = ctl
              ELSE /\ pc' = IF n > 0 THEN "stepping" ELSE "post"
                   /\ ctl' = [ctl EXCEPT !.num_frames = n]
    /\ UNCHANGED <<dec, flame, calls, probe>>

\* the length of the input _teacher_forced_step builds: the template row and
\* all ground-truth frames but the last
ForcedLength(smp) ==
    IF Has(smp, "gt_vertices") THEN Max(TimeOf(smp["gt_vertices"]), 1) ELSE 0

\* forward(), line 17
TeacherForced ==
    /\ pc = "forced"
    /\ \E drop \in DropChoices(dec.training, ForcedLength(sample)) :
         LET r == TeacherForcedStep(dec, flame, sample, drop)
         IN  /\ sample' = r.sample
             /\ flame' = r.flame
             /\ pc' = IF r.ok THEN "post" ELSE "raised"
    /\ UNCHANGED <<dec, ctl, calls, probe>>

\* the loop of lines 21-22 leaving after its first iteration
AutoregressiveOnce ==
    /\ pc = "stepping"
    /\ \E drop \in DropChoices(dec.training, ctl.i + 1) :
         LET r == AutoregressiveStep(dec, flame, sample, ctl.i, drop)
         IN  /\ sample' = r.sample
             /\ flame' = r.flame
             /\ ctl' = [ctl EXCEPT !.i = IF r.ok THEN ctl.i + 1 ELSE ctl.i]
             /\ pc' = IF ~r.ok THEN "raised" ELSE "post"
    /\ UNCHANGED <<dec, calls, probe>>

\* forward(), lines 21-22: one iteration of the loop
Autoregressive ==
    /\ pc = "stepping"
    /\ \E drop \in DropChoices(dec.training, ctl.i + 1) :
         LET r == AutoregressiveStep(dec, flame, sample, ctl.i, drop)
         IN  /\ sample' = r.sample
             /\ flame' = r.flame
             /\ ctl' = [ctl EXCEPT !.i = IF r.ok THEN ctl.i + 1 ELSE ctl.i]
             /\ pc' = IF ~r.ok THEN "raised"
                      ELSE IF ctl.i + 1 < ctl.num_frames THEN "stepping" ELSE "post"
    /\ UNCHANGED <<dec, calls, probe>>

\* forward(), lines 23-24
Post ==
    /\ pc = "post"
    /\ LET r == PostPrediction(sample)
       IN  /\ sample' = r.sample
           /\ pc' = IF r.ok THEN "returned" ELSE "raised"
    /\ UNCHANGED <<dec, flame, ctl, calls, probe>>

Next == Call \/ Forward \/ TeacherForced \/ Autoregressive \/ Post

Spec == Init /\ [][Next]_vars

\* the same decoder called twice, the second time possibly on the dict the
\* first call worked on
ReuseConfigs ==
    { c \in BaseConfigs : /\ c.max_len = 2 /\ c.build = "nan"
                          /\ c.vertice_map = <<1, 1>>
                          /\ c.predict_exp = c.predict_jaw }

InitReuse == InitWith(ReuseConfigs, 2)

SpecReuse == InitReuse /\ [][Next]_vars

\* ------------------------------------------------- the functions on their own
\* The table builders and the composition step applied to drawn arguments:
\* probe holds the function applied, its arguments and its result.
InitFunctions ==
    /\ dec = MakeDecoder(PlainConfig)
    /\ flame = [v_template |-> 0, eye_pose |-> eye_pose]
    /\ sample = EmptyDict
    /\ pc = "idle"
    /\ ctl = NoCtl
    /\ calls = 0
    /\ probe = NoProbe

ProbeBiasedMask ==
    /\ probe = NoProbe
    /\ \E n_head \in 1..MaxHead, max_seq_len \in 0..MaxSeqLen, period \in 1..MaxPeriod :
          probe' = [fn |-> "init_biased_mask", n_head |-> n_head,
                    max_seq_len |-> max_seq_len, period |-> period,
                    out |-> init_biased_mask(n_head, max_seq_len, period)]
    /\ UNCHANGED <<dec, flame, sample, pc, ctl, calls>>

ProbeGetSlopes ==
    /\ probe = NoProbe
    /\ \E n \in 1..MaxSlopeN :
          probe' = [fn |-> "get_slopes", n |-> n, out |-> get_slopes(n)]
    /\ UNCHANGED <<dec, flame, sample, pc, ctl, calls>>

ProbeEncDecMask ==
    /\ probe = NoProbe
    /\ \E T \in 0..MaxSeqLen, S \in 0..MaxSeqLen, dataset \in {"vocaset", "BIWI", "other"} :
          probe' = [fn |-> "enc_dec_mask", T |-> T, S |-> S, dataset |-> dataset,
                    raised |-> enc_dec_mask_raises(dataset),
                    out |-> IF enc_dec_mask_raises(dataset) THEN <<>>
                            ELSE enc_dec_mask(T, S, dataset)]
    /\ UNCHANGED <<dec, flame, sample, pc, ctl, calls>>

ProbePeriodicTable ==
    /\ probe = NoProbe
    /\ \E period \in 1..MaxPeriod, max_seq_len \in 0..MaxSeqLen :
          probe' = [fn |-> "PeriodicPositionalEncoding", period |-> period,
                    max_seq_len |-> max_seq_len,
                    out |-> PeriodicTable(period, max_seq_len)]
    /\ UNCHANGED <<dec, flame, sample, pc, ctl, calls>>

\* _post_prediction on a sample holding offsets of shape (B, T) and a
\* template of shape (B)
ProbePostPrediction ==
    /\ probe = NoProbe
    /\ \E B \in 1..MaxBatch, T \in 1..MaxGT, o \in {0, 1}, ts \in {0, 1} :
          LET offsets == [b \in 1..B |-> [t \in 1..T |-> (o + t + 2 * b) % Modulus]]
              template == [b \in 1..B |-> (ts + b) % Modulus]
              r == PostPrediction([predicted_vertices |-> offsets,
                                   template |-> template])
          IN  probe' = [fn |-> "_post_prediction", offsets |-> offsets,
                        template |-> template, raised |-> ~r.ok,
                        out |-> IF r.ok THEN r.sample["predicted_vertices"] ELSE <<>>]
    /\ UNCHANGED <<dec, flame, sample, pc, ctl, calls>>

\* self.PE(x) on an input of shape (B, T), for either encoder built with a
\* table for max_len positions, T <= max_len
ProbePEForward ==
    /\ probe = NoProbe
    /\ \E type \in {"PeriodicPositionalEncoding", "PositionalEncoding"},
          op \in {"add", "concat"}, max_len \in 1..MaxLen,
          B \in 1..MaxBatch, seed \in {0, 1} :
          \E T \in 1..max_len :
             LET PE == PositionalEncoder([type |-> type, op |-> op, period |-> 2,
                                          max_seq_len |-> max_len, max_len |-> max_len])
                 x == [b \in 1..B |-> [t \in 1..T |-> (seed + t + 2 * b) % Modulus]]
                 r == PEForward(PE, x)
             IN  probe' = [fn |-> "PE.forward", type |-> type, op |-> op,
                           pe |-> PE.pe, x |-> x, raised |-> ~r.ok,
                           w |-> IF r.ok THEN r.w ELSE 0,
                           out |-> IF r.ok THEN r.x ELSE <<>>]
    /\ UNCHANGED <<dec, flame, sample, pc, ctl, calls>>

\* the two masks _decode builds (lines 119-120) for a running length T and for
\* a later length Tlater, from one biased_mask and one conditioning length S
ProbeDecodeMasks ==
    /\ probe = NoProbe
    /\ \E max_len \in 1..MaxSeqLen, period \in 1..2, S \in 0..MaxSeqLen :
          \E T \in 1..max_len :
             \E Tlater \in T..max_len :
                LET biased_mask == init_biased_mask(2, max_len, period)
                IN  probe' = [fn |-> "_decode masks", T |-> T, Tlater |-> Tlater,
                              S |-> S,
                              tgt_mask |-> MaskSlice(biased_mask, T),
                              tgt_mask_later |-> MaskSlice(biased_mask, Tlater),
                              memory_mask |-> enc_dec_mask(T, S, "vocaset"),
                              memory_mask_later |-> enc_dec_mask(Tlater, S, "vocaset")]
    /\ UNCHANGED <<dec, flame, sample, pc, ctl, calls>>

\* the Parametric head built for n_exp expression components and run on one
\* projected frame
ProbeFlameLayout ==
    /\ probe = NoProbe
    /\ \E predict_exp \in BOOLEAN, predict_jaw \in BOOLEAN, n_exp \in 0..MaxNExp :
          LET r == FlameLayout(predict_exp, predict_jaw, n_exp, 1)
          IN  probe' = [fn |-> "FlameFormerDecoder._decode_vertices",
                        predict_exp |-> predict_exp, predict_jaw |-> predict_jaw,
                        n_exp |-> n_exp, raised |-> r.raised, width |-> r.width,
                        jaw_idx |-> r.jaw_idx, exp_idx |-> r.exp_idx,
                        vector_idx |-> r.vector_idx, assert_ok |-> r.assert_ok]
    /\ UNCHANGED <<dec, flame, sample, pc, ctl, calls>>

NextFunctions ==
    \/ ProbeBiasedMask \/ ProbeGetSlopes \/ ProbeEncDecMask
    \/ ProbePeriodicTable \/ ProbePostPrediction \/ ProbePEForward
    \/ ProbeDecodeMasks \/ ProbeFlameLayout

SpecFunctions == InitFunctions /\ [][NextFunctions]_vars

\* ------------------------------------------------------------------ claims

\* C4: in the mask init_biased_mask(n_head, max_seq_len, period) builds, for
\* every head h, every entry above the diagonal (i < j) is -inf and every
\* entry on or below it (j <= i) is finite and <= 0, with 0 on the diagonal;
\* for every period >= 1, also one larger than max_seq_len or not dividing it.
C4_SelfMaskCausal ==
    probe.fn = "init_biased_mask" =>
        \A h \in 1..probe.n_head : \A i \in 1..probe.max_seq_len :
            \A j \in 1..probe.max_seq_len :
                /\ i < j => probe.out[h][i][j] = NegInf
                /\ j <= i => /\ probe.out[h][i][j] # NegInf
                             /\ probe.out[h][i][j] <= 0
                /\ j = i => probe.out[h][i][j] = 0

\* a mask of three heads and five rows whose period, 3, does not divide 5,
\* holding an entry below the diagonal that is not 0
C4_Witness ==
    /\ probe.fn = "init_biased_mask"
    /\ probe.n_head = 3 /\ probe.max_seq_len = 5 /\ probe.period = 3
    /\ probe.out[3][5][1] < 0
    /\ probe.out[3][1][5] = NegInf

\* C5: for T = S >= 1, enc_dec_mask (dataset "vocaset", the one _decode
\* uses) permits target i to attend source j exactly when i = j.
C5_CrossMaskDiagonal ==
    (/\ probe.fn = "enc_dec_mask" /\ probe.dataset = "vocaset"
     /\ probe.T = probe.S /\ probe.T >= 1) =>
        /\ ~probe.raised
        /\ Len(probe.out) = probe.T
        /\ \A i \in 1..probe.T :
              /\ Len(probe.out[i]) = probe.S
              /\ \A j \in 1..probe.S : (probe.out[i][j] = FALSE) <=> (i = j)

C5_Witness ==
    /\ probe.fn = "enc_dec_mask" /\ probe.dataset = "vocaset"
    /\ probe.T = 4 /\ probe.S = 4
    /\ probe.out[3][3] = FALSE
    /\ probe.out[3][4] = TRUE

\* C6: the table PeriodicPositionalEncoding builds has at least max_seq_len
\* rows, and row t equals row (t mod period) for every t < max_seq_len, for
\* every period >= 1 and max_seq_len >= 1.
C6_PeriodicTable ==
    (probe.fn = "PeriodicPositionalEncoding" /\ probe.max_seq_len >= 1) =>
        /\ Len(probe.out) >= probe.max_seq_len
        /\ \A t \in 0..(probe.max_seq_len - 1) :
              probe.out[t + 1] = probe.out[(t % probe.period) + 1]

\* a table whose period, 2, is smaller than max_seq_len = 5 and does not
\* divide it: row 4 repeats row 0 and differs from row 3
C6_Witness ==
    /\ probe.fn = "PeriodicPositionalEncoding"
    /\ probe.period = 2 /\ probe.max_seq_len = 5
    /\ probe.out[5] = probe.out[1]
    /\ probe.out[5] # probe.out[4]

\* ------------------------------------------------- claims about a decode call
\* L: the ground-truth length when the sample holds ground truth, the
\* conditioning length S otherwise
Requested == IF Has(sample, "gt_vertices")
             THEN TimeOf(sample["gt_vertices"])
             ELSE TimeOf(sample["seq_encoder_output"])

MaxSteps == MaxAutoRegressiveSteps(dec)

Returned == pc = "returned"

\* the frames sample["predicted_vertices"] holds, per batch element
Frames == sample["predicted_vertices"]

FramesEqualTemplate ==
    \A b \in 1..BatchOf(Frames) : \A t \in 1..Len(Frames[b]) :
        Frames[b][t] = sample["template"][b]

AllZero(x) == \A b \in 1..Len(x) : \A t \in 1..Len(x[b]) : x[b][t] = 0

\* C1: every decode call that returns, returns min(L, max_steps) frames.
C1_OutputLength ==
    Returned => TimeOf(Frames) = Min(Requested, MaxSteps)

\* The running sequence the step-wise loop holds when it enters step i, had
\* every earlier step been fed the ground-truth frame minus the template in
\* place of the frame it predicted.
RECURSIVE GtFedEmbedded(_, _, _)
GtFedEmbedded(d, smp, i) ==
    LET style_emb == ObjEmbedding(d, smp["one_hot"])
    IN  IF i = 0 THEN style_emb
        ELSE LET before == GtFedEmbedded(d, smp, i - 1)
             IN  [b \in 1..Len(before) |->
                    Append(before[b],
                           NewOutput(d, VSub(smp["gt_vertices"][b][i], smp["template"][b]),
                                     style_emb[b][1]))]

\* row i+1 of the decoder input, of every head's self-mask and of the
\* cross-mask that a pass over n positions uses
InputRow(d, emb, i) ==
    LET x == PEForward(d.PE, emb) IN IF x.ok THEN x.x[1][i + 1] ELSE Raised

SelfMaskRow(d, n, i) ==
    [h \in 1..Len(d.biased_mask) |-> MaskSlice(d.biased_mask, n)[h][i + 1]]

\* C2: fed the ground truth, the step-wise loop sees at every index i the
\* decoder input, the self-mask row (up to column i) and the cross-mask row
\* that the teacher-forced pass sees at index i, index 0 included.
C2_ForcedStepwiseEquivalent ==
    (/\ pc = "forced" /\ Has(sample, "gt_vertices")
     /\ BatchOf(sample["gt_vertices"]) = 1
     /\ TimeOf(sample["gt_vertices"]) \in 1..MaxSteps) =>
        LET T == TimeOf(sample["gt_vertices"])
            S == TimeOf(sample["hidden_feature"])
        IN  \A i \in 0..(T - 1) :
              /\ InputRow(dec, ForcedEmbedded(dec, sample), i)
                   = InputRow(dec, GtFedEmbedded(dec, sample, i), i)
              /\ \A h \in 1..Len(dec.biased_mask) : \A j \in 1..(i + 1) :
                    SelfMaskRow(dec, T, i)[h][j] = SelfMaskRow(dec, i + 1, i)[h][j]
              /\ enc_dec_mask(T, S, "vocaset")[i + 1]
                   = enc_dec_mask(i + 1, S, "vocaset")[i + 1]

\* C3: a Direct head at its zero initialisation returns the template at
\* every frame, in both modes.
C3_ZeroInitIdentity ==
    (/\ Returned /\ dec.kind = "FaceFormerDecoder" /\ dec.vertex_map = <<0, 0>>) =>
        FramesEqualTemplate

\* C7: a decode call with no frame to produce (no ground truth and an empty
\* conditioning sequence, or ground truth of length zero) does not return.
C7_EmptyInputFails ==
    Returned => Requested >= 1

HeadDecoded == ctl.teacher_forcing \/ ctl.i >= 1

\* C10: when the expression and jaw parameters the Parametric head decoded
\* in a call are zero at every frame, the call returns the template at every
\* frame, on a fresh sample dict and on a reused one.
C10_NeutralCancellation ==
    (/\ Returned /\ dec.kind = "FlameFormerDecoder" /\ HeadDecoded
     /\ AllZero(sample["predicted_exp"]) /\ AllZero(sample["predicted_jaw"])) =>
        FramesEqualTemplate

\* a step-wise call of a Parametric head predicting both parameters has
\* returned two frames, all parameters zero, with a template that is not 0
C10_Witness ==
    /\ Returned /\ dec.kind = "FlameFormerDecoder" /\ ~ctl.teacher_forcing
    /\ dec.predict_exp /\ dec.predict_jaw
    /\ TimeOf(Frames) = 2
    /\ AllZero(sample["predicted_exp"]) /\ AllZero(sample["predicted_jaw"])
    /\ sample["template"][1] # 0

\* ------------------------------------------------ claims about the tables
\* A slope is held as the numerator e of its exponent, slope = 2^(-e/16), so
\* slope = 2^(-8k/n) exactly when e * n = 128 * k, and a smaller slope is a
\* larger e.
\* C11: get_slopes(n) returns n slopes; for n a power of two, slope h
\* (0-based) is 2^(-8(h+1)/n) and the slopes strictly decrease with h; for
\* other n, with p the largest power of two <= n, the first p slopes are
\* those of p heads and the remaining n-p are entries 0,2,4,... of the
\* slopes of 2p heads, in order.
C11_Slopes ==
    probe.fn = "get_slopes" =>
        LET n == probe.n
            p == Pow2(FloorLog2(n))
        IN  /\ Len(probe.out) = n
            /\ p = n =>
                  /\ \A h \in 0..(n - 1) : probe.out[h + 1] * n = 128 * (h + 1)
                  /\ \A h \in 1..(n - 1) : probe.out[h + 1] > probe.out[h]
            /\ p # n =>
                  /\ \A h \in 0..(p - 1) : probe.out[h + 1] * p = 128 * (h + 1)
                  /\ \A k \in 0..(n - p - 1) :
                        probe.out[p + k + 1] * (2 * p) = 128 * (2 * k + 1)

\* get_slopes(7): four slopes of 4 heads, then entries 0, 2, 4 of 8 heads
C11_Witness ==
    /\ probe.fn = "get_slopes" /\ probe.n = 7
    /\ probe.out = <<32, 64, 96, 128, 16, 48, 80>>

\* ------------------------------------------------- claims about the control
\* C12: a call goes init -> forced -> post or init -> stepping ... -> post,
\* never through both and never back; the step-wise path runs steps
\* 0, 1, ..., N-1 in order with N = min(L, max_steps) and reaches post only
\* after step N-1 (with N = 0 it runs no step); post is left once, to the
\* return or to an error.  A step that raises ends the call in that error.
C12_StateMachine ==
    [][LET N == Min(Requested, MaxSteps)
       IN  /\ pc = "init" =>
                /\ ctl.i = 0
                /\ pc' = IF ctl.teacher_forcing THEN "forced"
                         ELSE IF N >= 1 THEN "stepping" ELSE "post"
           /\ pc = "forced" =>
                /\ ctl.teacher_forcing
                /\ pc' \in {"post", "raised"}
           /\ pc = "stepping" =>
                /\ ~ctl.teacher_forcing
                /\ ctl.i < N
                /\ pc' # "raised" =>
                      /\ ctl'.i = ctl.i + 1
                      /\ pc' = IF ctl'.i = N THEN "post" ELSE "stepping"
           /\ pc = "post" =>
                /\ pc' \in {"returned", "raised"}
                /\ ~ctl.teacher_forcing => ctl.i = N
           /\ pc \in {"init", "forced", "stepping", "post"} =>
                ctl'.teacher_forcing = ctl.teacher_forcing]_vars

\* a step-wise call of three steps has returned
C12_Witness ==
    /\ Returned /\ ~ctl.teacher_forcing
    /\ ctl.i = 3 /\ Requested = 3 /\ MaxSteps = 3

\* round(i * S / T), a tie rounded up resp. down, kept below S
RoundedUp(i, S, T) == Min((2 * i * S + T) \div (2 * T), S - 1)
RoundedDown(i, S, T) == Min((2 * i * S + T - 1) \div (2 * T), S - 1)

\* C13: for every target length T and source length S, equal or not, the
\* source positions target step i may attend to include source index
\* round(i * S / T).
C13_CrossMaskAlignment ==
    (/\ probe.fn = "enc_dec_mask" /\ probe.dataset = "vocaset"
     /\ probe.T >= 1 /\ probe.S >= 1) =>
        \A i \in 0..(probe.T - 1) :
            LET permitted == { j \in 0..(probe.S - 1) : ~probe.out[i + 1][j + 1] }
            IN  \/ RoundedUp(i, probe.S, probe.T) \in permitted
                \/ RoundedDown(i, probe.S, probe.T) \in permitted

\* C14: for both positional encoders and every input of shape (B, T, d),
\* T >= 1, the encoder returns shape (B, T, d) in sum mode and (B, T, 2d) in
\* concat mode.
C14_FeatureWidth ==
    probe.fn = "PE.forward" =>
        /\ ~probe.raised
        /\ BatchOf(probe.out) = BatchOf(probe.x)
        /\ TimeOf(probe.out) = TimeOf(probe.x)
        /\ probe.w = IF probe.op = "add" THEN 1 ELSE 2

\* C15: in the mask init_biased_mask builds, for every head h with slope m_h
\* and all j <= i, the entry is -m_h * floor((i - j) / period) (held times
\* 2^8); so the bias does not increase with the distance i - j.
C15_PeriodQuantizedDecay ==
    probe.fn = "init_biased_mask" =>
        LET slopes == get_slopes(probe.n_head)
        IN  \A h \in 1..probe.n_head : \A i \in 1..probe.max_seq_len : \A j \in 1..i :
              /\ probe.out[h][i][j]
                   = 0 - SlopeScaled(slopes[h]) * ((i - j) \div probe.period)
              /\ \A k \in 1..j : probe.out[h][i][k] <= probe.out[h][i][j]

\* two heads, five positions, period 2: from position 4 the bias of head 0
\* (slope 2^-4) is 0 at distances 0 and 1, one slope at distances 2 and 3,
\* two slopes at distance 4
C15_Witness ==
    /\ probe.fn = "init_biased_mask"
    /\ probe.n_head = 2 /\ probe.max_seq_len = 5 /\ probe.period = 2
    /\ probe.out[1][5] = <<-32, -16, -16, 0, 0>>

\* the number of times the table holds its first period rows in a row
Tiles(table, period) ==
    IF /\ Len(table) % period = 0
       /\ \A q \in 1..Len(table) : table[q] = table[((q - 1) % period) + 1]
    THEN Len(table) \div period
    ELSE 0

\* C16, as claimed: the periodic table is the period-row base table tiled
\* ceil(max_len / period) + 1 times, for every period >= 1 and max_len >= 1.
C16_TilesCeil ==
    (probe.fn = "PeriodicPositionalEncoding" /\ probe.max_seq_len >= 1) =>
        Tiles(probe.out, probe.period)
            = ((probe.max_seq_len + probe.period - 1) \div probe.period) + 1

\* C16, amended: the periodic table is the period-row base table tiled
\* floor(max_len / period) + 1 times, for every period >= 1 and max_len >= 1.
C16_TilesFloor ==
    (probe.fn = "PeriodicPositionalEncoding" /\ probe.max_seq_len >= 1) =>
        Tiles(probe.out, probe.period) = (probe.max_seq_len \div probe.period) + 1

\* period 3 over 5 positions: two tiles, six rows
C16_Witness ==
    /\ probe.fn = "PeriodicPositionalEncoding"
    /\ probe.period = 3 /\ probe.max_seq_len = 5
    /\ Tiles(probe.out, probe.period) = 2
    /\ Len(probe.out) = 6

\* C17: in sum mode either encoder, applied to an input of shape (B, T, d)
\* with T no longer than its table, adds table row t to the element at
\* sequence position t of every batch element.
C17_PositionalAlignment ==
    (probe.fn = "PE.forward" /\ probe.op = "add") =>
        /\ ~probe.raised
        /\ BatchOf(probe.out) = BatchOf(probe.x)
        /\ \A b \in 1..BatchOf(probe.x) :
              /\ Len(probe.out[b]) = Len(probe.x[b])
              /\ \A t \in 1..Len(probe.x[b]) :
                    probe.out[b][t] = [v |-> probe.x[b][t], pos |-> SinusoidRow(t - 1)]

\* ------------------------------------------- claims about the step-wise loop
\* a step of the loop that did not raise
StepDone == pc = "stepping" /\ pc' # "raised"

\* C18: the sequence step i feeds the decoder has i+1 <= max_steps entries,
\* the running sequence after the step has i+2, and its first i+1 entries
\* are the entries the step started from, in order.
C18_SequenceGrowth ==
    [][StepDone =>
         LET i == ctl.i
             before == IF i = 0 THEN sample'["style_emb"]
                       ELSE sample["embedded_output"]
             after == sample'["embedded_output"]
         IN  /\ TimeOf(before) = i + 1
             /\ i + 1 <= MaxSteps
             /\ BatchOf(after) = BatchOf(before)
             /\ \A b \in 1..BatchOf(after) :
                   /\ Len(after[b]) = i + 2
                   /\ SubSeq(after[b], 1, i + 1) = before[b]]_vars

\* the running sequence holds four entries after the third step
C18_Witness ==
    /\ pc = "post" /\ ~ctl.teacher_forcing /\ ctl.i = 3
    /\ TimeOf(sample["embedded_output"]) = 4

\* C19: in every step of a call the style embedding is the one of the
\* call's subject, entry 0 of the running sequence is that embedding alone,
\* and the entry the step appends is the embedded last predicted offset plus
\* that embedding.
C19_StylePersistence ==
    [][StepDone =>
         LET i == ctl.i
             style == ObjEmbedding(dec, sample["one_hot"])
             after == sample'["embedded_output"]
         IN  /\ sample'["style_emb"] = style
             /\ \A b \in 1..BatchOf(after) :
                  /\ after[b][1] = style[b][1]
                  /\ after[b][i + 2]
                       = VAdd(Linear(dec.vertice_map,
                                     LastFrame(sample'["predicted_vertices"], b)),
                              style[b][1])]_vars

\* a second call on the dict of a first one, for another subject, has run
\* two steps with the style of its own subject
C19_Witness ==
    /\ pc = "post" /\ ~ctl.teacher_forcing /\ ctl.i = 2 /\ calls = 0
    /\ sample["one_hot"] = <<2>>
    /\ sample["style_emb"] = <<<<1>>>>
    /\ sample["embedded_output"][1][1] = 1

\* C20: a step does not replace the predictions of earlier steps: the frames
\* at positions below the step's own are the ones held before the step.
C20_LastPositionOnly ==
    [][(StepDone /\ ctl.i >= 1) =>
         \A b \in 1..BatchOf(sample["predicted_vertices"]) :
            \A k \in 1..ctl.i :
               sample'["predicted_vertices"][b][k] = sample["predicted_vertices"][b][k]]_vars

\* ------------------------------------------- two calls on one Parametric
\* ------------------------------------------- decoder, interleaved
\* Two calls of _decode_vertices on one decoder, each on one projected frame,
\* run statement by statement in any order.  The shape model (flame) is the
\* decoder's and is shared; everything else is local to a call and kept in
\* probe.call[c]: the statement the call is at, its template and parameters,
\* and the values lines 293-295 compute.
InterleaveConfig ==
    [PlainConfig EXCEPT !.kind = "FlameFormerDecoder",
                        !.predict_exp = TRUE, !.predict_jaw = TRUE]

LocalCall(template, expression_params, jaw_pose) ==
    [at |-> "265", template |-> template,
     expression_params |-> expression_params, jaw_pose |-> jaw_pose,
     vertice_neutral |-> 0, vertice_out |-> 0]

InitInterleave ==
    /\ dec = MakeDecoder(InterleaveConfig)
    /\ flame = [v_template |-> 0, eye_pose |-> eye_pose]
    /\ sample = EmptyDict
    /\ pc = "idle"
    /\ ctl = NoCtl
    /\ calls = 0
    /\ \E t1 \in 1..2, t2 \in 1..2, e \in [1..2 -> {0, 1}], j \in [1..2 -> {0, 1}] :
          /\ t1 # t2
          /\ probe = [fn |-> "interleaved _decode_vertices",
                      call |-> <<LocalCall(t1, e[1], j[1]), LocalCall(t2, e[2], j[2])>>]

\* line 265: self.flame.v_template = template.squeeze(1).view(-1, 3)
StoreTemplate(c) ==
    /\ probe.call[c].at = "265"
    /\ flame' = [flame EXCEPT !.v_template = probe.call[c].template]
    /\ probe' = [probe EXCEPT !.call[c].at = "293"]
    /\ UNCHANGED <<dec, sample, pc, ctl, calls>>

\* line 293: vertice_neutral, _, _ = self.flame.forward(...)
NeutralShape(c) ==
    /\ probe.call[c].at = "293"
    /\ probe' = [probe EXCEPT !.call[c].at = "294",
                              !.call[c].vertice_neutral = FlameNeutral(flame)]
    /\ UNCHANGED <<dec, flame, sample, pc, ctl, calls>>

\* lines 294-297: vertice_out = self.flame(...) - vertice_neutral, returned
PosedShape(c) ==
    /\ probe.call[c].at = "294"
    /\ probe' = [probe EXCEPT
                   !.call[c].at = "done",
                   !.call[c].vertice_out =
                       VSub(FlamePosed(flame, probe.call[c].expression_params,
                                       probe.call[c].jaw_pose),
                            probe.call[c].vertice_neutral)]
    /\ UNCHANGED <<dec, flame, sample, pc, ctl, calls>>

NextInterleave ==
    \E c \in 1..2 : StoreTemplate(c) \/ NeutralShape(c) \/ PosedShape(c)

SpecInterleave == InitInterleave /\ [][NextInterleave]_vars

\* ------------------------------------------------ claims about what a call
\* ------------------------------------------------ leaves alone
\* forward() is running: between its entry and its return or error
InCall == pc \in {"init", "forced", "stepping", "post"}

\* C21: no step of a call, in either mode, changes the caller's template,
\* conditioning sequence or ground-truth frames, nor the decoder's self-mask
\* or positional table.
C21_InputsAndTablesKept ==
    [][InCall =>
         /\ \A k \in {"template", "seq_encoder_output", "gt_vertices"} :
               Has(sample, k) => Has(sample', k) /\ sample'[k] = sample[k]
         /\ dec'.biased_mask = dec.biased_mask
         /\ dec'.PE.pe = dec.PE.pe]_vars

\* a second, teacher-forced call on a reused dict has returned two frames,
\* none of them the template
C21_Witness ==
    /\ Returned /\ calls = 0 /\ ctl.teacher_forcing
    /\ TimeOf(sample["gt_vertices"]) = 2
    /\ \A t \in 1..2 : Frames[1][t] # sample["template"][1]

\* C22: no call changes an attribute of the decoder or of its injected shape
\* model.
C22_NoPersistentState ==
    [][InCall => dec' = dec /\ flame' = flame]_vars

\* C23: the masks of a decode with running length T are the top-left T x T
\* and T x S blocks of the masks of any decode with a larger length, so the
\* mask row of a frame index is the same at every step that computes it.
C23_MaskPrefixStable ==
    probe.fn = "_decode masks" =>
       /\ \A h \in 1..Len(probe.tgt_mask) :
             /\ Len(probe.tgt_mask[h]) = probe.T
             /\ \A i \in 1..probe.T :
                   probe.tgt_mask[h][i] = Prefix(probe.tgt_mask_later[h][i], probe.T)
       /\ Len(probe.memory_mask) = probe.T
       /\ \A i \in 1..probe.T :
             /\ Len(probe.memory_mask[i]) = probe.S
             /\ probe.memory_mask[i] = probe.memory_mask_later[i]

\* a two-frame decode compared with a later four-frame one, three
\* conditioning frames
C23_Witness ==
    /\ probe.fn = "_decode masks"
    /\ probe.T = 2 /\ probe.Tlater = 4 /\ probe.S = 3
    /\ probe.tgt_mask[1][2][1] # probe.tgt_mask[1][2][2]
    /\ ~probe.memory_mask[2][2]

\* C24: a call never fails at an autoregressive step after the first: a step
\* that raises is step 0, and a raised call has left no running sequence of
\* two or more entries in the sample.
C24_FailsBeforeAttention ==
    [][(pc = "stepping" /\ pc' = "raised") =>
         /\ ctl.i = 0
         /\ ~(Has(sample', "embedded_output")
              /\ TimeOf(sample'["embedded_output"]) >= 2)]_vars

\* the ops either encoder's forward() accepts
ValidOps == {"add", "sum", "concat", "cat", "concatenate"}

\* C25: a decoder with an unknown positional-encoding type or an unknown
\* combine op is rejected while it is constructed, so no decode call ever
\* starts on one.
C25_RejectedAtConstruction ==
    InCall =>
       /\ dec.PE.type \in {"PeriodicPositionalEncoding", "PositionalEncoding"}
       /\ dec.PE.op \in ValidOps

\* C26: with dataset "BIWI" and S = 2T, target step i may attend exactly the
\* source positions 2i and 2i+1; a dataset name other than "BIWI" and
\* "vocaset" raises and returns no mask.
C26_TwoToOneWindows ==
    probe.fn = "enc_dec_mask" =>
       /\ (probe.dataset = "BIWI" /\ probe.S = 2 * probe.T) =>
             /\ ~probe.raised
             /\ Len(probe.out) = probe.T
             /\ \A i \in 0..(probe.T - 1) :
                   /\ Len(probe.out[i + 1]) = probe.S
                   /\ \A j \in 0..(probe.S - 1) :
                         ~probe.out[i + 1][j + 1] <=> j \in {2 * i, 2 * i + 1}
       /\ probe.dataset \notin {"BIWI", "vocaset"} =>
             probe.raised /\ probe.out = <<>>

\* a BIWI mask for two target steps and four source positions
C26_Witness ==
    /\ probe.fn = "enc_dec_mask" /\ probe.dataset = "BIWI"
    /\ probe.T = 2 /\ probe.S = 4 /\ ~probe.raised
    /\ ~probe.out[2][3] /\ ~probe.out[2][4] /\ probe.out[2][2]

\* the sample with the ground-truth frames whose (1-based) index is in K
\* changed, by delta, in every row
WithFrames(K, delta) ==
    Put(sample, "gt_vertices",
        [b \in 1..BatchOf(sample["gt_vertices"]) |->
            [t \in 1..Len(sample["gt_vertices"][b]) |->
                IF t \in K THEN (sample["gt_vertices"][b][t] + delta) % Modulus
                ELSE sample["gt_vertices"][b][t]]])

\* lines 106-110: the decoder input of the teacher-forced pass over smp
ForcedInput(smp) == PEForward(dec.PE, ForcedEmbedded(dec, smp))

\* C27: in the teacher-forced pass the decoder input at position 0 is the
\* same whichever ground-truth frames are changed, and the input at position
\* p > 0 is the same whenever frame p-1 is not among the changed ones, so
\* the last frame is never an input and frames with index >= k leave
\* positions <= k alone; the self-mask row of position p forbids every later
\* position.
C27_NoTargetLeakage ==
    (pc = "forced" /\ Has(sample, "gt_vertices")
       /\ TimeOf(sample["gt_vertices"]) >= 1) =>
       LET gt == sample["gt_vertices"]
           L == TimeOf(gt)
           mine_emb == ForcedEmbedded(dec, sample)
           mine == PEForward(dec.PE, mine_emb)
       IN  /\ \A K \in (SUBSET (1..L)) \ { {} } : \A delta \in 1..(Modulus - 1) :
                LET other_emb == ForcedEmbedded(dec, WithFrames(K, delta))
                    other == PEForward(dec.PE, other_emb)
                IN  /\ other.ok = mine.ok
                    /\ \A b \in 1..BatchOf(gt) : \A p \in 0..(L - 1) :
                          (p = 0 \/ p \notin K) =>
                             /\ other_emb[b][p + 1] = mine_emb[b][p + 1]
                             /\ mine.ok => other.x[b][p + 1] = mine.x[b][p + 1]
           /\ \A h \in 1..Len(dec.biased_mask) :
                \A p \in 0..(Min(L, Len(dec.biased_mask[h])) - 1) :
                   \A j \in (p + 1)..(Min(L, Len(dec.biased_mask[h])) - 1) :
                      MaskSlice(dec.biased_mask, L)[h][p + 1][j + 1] = NegInf

\* a teacher-forced pass over three frames whose embedded input differs
\* between positions 1 and 2, the ground truth being what it is
C27_Witness ==
    /\ pc = "forced" /\ Has(sample, "gt_vertices")
    /\ TimeOf(sample["gt_vertices"]) = 3
    /\ ForcedInput(sample).ok
    /\ ForcedEmbedded(dec, sample)[1][2] # ForcedEmbedded(dec, sample)[1][3]
    /\ sample["gt_vertices"][1][3] # sample["gt_vertices"][1][2]

\* the running length of the attention-stack invocation the call is about
\* to make: the teacher-forced pass, or autoregressive step ctl.i
InvocationLength ==
    IF pc = "forced" THEN ForcedLength(sample) ELSE ctl.i + 1

\* C28: in every attention-stack invocation over a non-empty conditioning
\* sequence, each target row of the cross-mask permits at least one source
\* position, also when there are more frames than conditioning positions.
C28_CrossRowsOpen ==
    (/\ pc \in {"forced", "stepping"}
     /\ pc = "forced" => Has(sample, "gt_vertices")
     /\ TimeOf(sample["hidden_feature"]) >= 1) =>
        LET S == TimeOf(sample["hidden_feature"])
            memory_mask == enc_dec_mask(InvocationLength, S, "vocaset")
        IN  \A i \in 1..InvocationLength : \E j \in 1..S : ~memory_mask[i][j]

\* C29: for every combination of predict_exp and predict_jaw and every
\* n_exp >= 0 the Parametric head reaches its assertion and the assertion
\* holds: the projection is (3 if predict_jaw) + (n_exp if predict_exp) wide,
\* the jaw pose is its first 3 components, the expression the n_exp after
\* them, and every component is read exactly once.
C29_AssertionHolds ==
    probe.fn = "FlameFormerDecoder._decode_vertices" =>
       LET j == IF probe.predict_jaw THEN 3 ELSE 0
           e == IF probe.predict_exp THEN probe.n_exp ELSE 0
       IN  /\ ~probe.raised
           /\ probe.assert_ok
           /\ probe.width = j + e
           /\ probe.jaw_idx = 0..(j - 1)
           /\ probe.exp_idx = j..(j + e - 1)
           /\ probe.jaw_idx \cap probe.exp_idx = {}
           /\ probe.jaw_idx \cup probe.exp_idx = 0..(probe.width - 1)

\* what call c returns when it runs alone: _decode_vertices on its own
\* template from the first statement to the last
RunAlone(c) ==
    FlameOffset([flame EXCEPT !.v_template = probe.call[c].template],
                probe.call[c].expression_params, probe.call[c].jaw_pose)

\* C30: when two calls with different templates interleave on one
\* Parametric decoder, a call about to evaluate the shape function finds its
\* own template in the shape model, and a finished call has returned the
\* frame it returns when it runs alone.
C30_PerCallOwnership ==
    probe.fn = "interleaved _decode_vertices" =>
       \A c \in 1..2 :
          /\ probe.call[c].at \in {"293", "294"} =>
                flame.v_template = probe.call[c].template
          /\ probe.call[c].at = "done" =>
                probe.call[c].vertice_out = RunAlone(c)

====
